---- MODULE Spec2Model ----
(***************************************************************************)
(* The catalog graph engine of specific-provisioner/src/DCAT.py            *)
(* (class DCATCatalog) as a state machine over one rdflib Graph.           *)
(*                                                                         *)
(* Strings are sequences of tokens.  A token is one of the two query       *)
(* syntax characters (the double quote and the backslash) or a word of     *)
(* ordinary characters; the words are chosen so that two different token   *)
(* sequences never spell the same string and so that no word begins with   *)
(* a letter that forms an escape after a backslash (t b n r f).            *)
(* An RDF term is a sequence whose first token is its kind ("uri",         *)
(* "bnode", "lit", "lit@en", "lit^^xsd:date") followed by its string.      *)
(* The graph is a set of triples <<subject, predicate, object>>.           *)
(*                                                                         *)
(* g is the graph, bnodes the number of blank nodes created so far,        *)
(* lastCall the last call made and what it returned, phase the position    *)
(* of the catalog's construction in main.py, inflight the add_dataset      *)
(* calls of the provisioning requests, statement by statement.             *)
(***************************************************************************)
EXTENDS Naturals, Sequences, FiniteSets, TLC

VARIABLES g, bnodes, lastCall, phase, inflight

vars == <<g, bnodes, lastCall, phase, inflight>>

\* ---------------------------------------------------------------- bounds
MaxBNodes == 4

\* ------------------------------------------------------------ vocabulary
QUOTE == "\""
BACKSLASH == "\\"
APOSTROPHE == "'"
\* Python's None for an absent string, an absent list of strings and an absent
\* list of field dictionaries, and the truth value  if x:  gives each
None == <<"<None>">>
NoneList == <<None>>
NoFields == <<[name |-> None, type |-> None, description |-> None,
               business_terms |-> NoneList]>>

Truthy(x) == x # None /\ x # <<>>
TruthyList(x) == x # NoneList /\ x # <<>>
TruthyFields(x) == x # NoFields /\ x # <<>>

RDF_type == "rdf:type"
RDFS_label == "rdfs:label"
RDFS_seeAlso == "rdfs:seeAlso"
RDFS_comment == "rdfs:comment"
DCTERMS_title == "dcterms:title"
DCTERMS_description == "dcterms:description"
DCTERMS_issued == "dcterms:issued"
DCAT_dataset == "dcat:dataset"
DCAT_theme == "dcat:theme"
DCAT_keyword == "dcat:keyword"
SKOS_prefLabel == "skos:prefLabel"

URIRef(s) == <<"uri">> \o s
Literal(s) == <<"lit">> \o s
LangLiteral(s) == <<"lit@en">> \o s
DateLiteral(s) == <<"lit^^xsd:date">> \o s
BNode(n) == <<"bnode", ToString(n)>>

\* str() of a term: its string without kind, language tag or datatype
Str(term) == Tail(term)

IsBNode(term) == Head(term) = "bnode"
IsURI(term) == Head(term) = "uri"

DCAT_Catalog == URIRef(<<"http://www.w3.org/ns/dcat#", "Catalog">>)
DCAT_Dataset == URIRef(<<"http://www.w3.org/ns/dcat#", "Dataset">>)
SKOS_Concept == URIRef(<<"http://www.w3.org/2004/02/skos/core#", "Concept">>)
OWL_Class == URIRef(<<"http://www.w3.org/2002/07/owl#", "Class">>)

\* setup_namespaces: a Namespace is a string, NS[key] is NS followed by key
CATALOG_NS == <<"http://data.example.com/catalog/">>
DATASET_NS == <<"http://data.example.com/dataset/">>
FIELD_NS == <<"http://data.example.com/fields/">>
FIBO_NS == <<"https://spec.edmcouncil.org/fibo/ontology/master/2020Q1/prod.fibo-quickstart.ttl#">>
EX_NS == <<"http://example.org/terms#">>

NamespaceTerm(ns, key) == URIRef(ns \o key)

FIELD_Field == NamespaceTerm(FIELD_NS, <<"Field">>)
FIELD_hasField == "field:hasField"
FIELD_fieldName == "field:fieldName"
FIELD_fieldType == "field:fieldType"
FIELD_fieldDescription == "field:fieldDescription"
FIELD_hasBusinessTerm == "field:hasBusinessTerm"
EX_hasForeignKeyTo == "ex:hasForeignKeyTo"

catalog == URIRef(CATALOG_NS \o <<"main-catalog">>)

DatasetURI(identifier) == NamespaceTerm(DATASET_NS, identifier)

\* ------------------------------------------------------- graph primitives
\* Graph.add: set semantics, a duplicate insertion changes nothing
GraphAdd(gr, triple) == gr \cup {triple}

\* Graph.remove((s, p, o)) with a fully bound pattern
GraphRemove(gr, triple) == gr \ {triple}

\* Graph.triples((s, None, None))
TriplesOfSubject(gr, s) == {t \in gr : t[1] = s}

\* Graph.objects(s, p)
Objects(gr, s, p) == {t[3] : t \in {u \in gr : u[1] = s /\ u[2] = p}}

\* Graph.remove((s, p, None))
GraphRemoveSP(gr, s, p) == {t \in gr : ~(t[1] = s /\ t[2] = p)}

\* --------------------------------------------------------------- ontology
\* The document the loader merges at construction.  T1 is the one node
\* labelled exactly "Legal Entity"; T2 and T3 share the label "Entity",
\* T3 under a language tag; T4's label holds a backslash, T5's a quote.
LegalEntity == <<"Legal", " ", "Entity">>
legal_entity == <<"legal", " ", "entity">>

T1 == URIRef(FIBO_NS \o <<"LegalEntity">>)
T2 == URIRef(FIBO_NS \o <<"Entity">>)
T3 == URIRef(<<"https://www.omg.org/spec/LCC/", "Entity">>)
T4 == URIRef(FIBO_NS \o <<"LegalOrEntity">>)
T5 == URIRef(FIBO_NS \o <<"QuotedEntity">>)

\* the label statements in the order the store yields them
OntologyLabels ==
    << <<T1, RDFS_label, Literal(LegalEntity)>>,
       <<T2, RDFS_label, Literal(<<"Entity">>)>>,
       <<T3, RDFS_label, LangLiteral(<<"Entity">>)>>,
       <<T4, RDFS_label, Literal(<<"Legal", BACKSLASH, "Entity">>)>>,
       <<T5, RDFS_label, Literal(<<QUOTE, "Entity", QUOTE>>)>> >>

OntologyTriples ==
    {OntologyLabels[i] : i \in 1..Len(OntologyLabels)}
        \cup {<<T1, RDF_type, OWL_Class>>, <<T2, RDF_type, OWL_Class>>,
              <<T4, RDF_type, OWL_Class>>}

\* DCATCatalog.__init__: the catalog node and the merged ontology
InitialGraph ==
    {<<catalog, RDF_type, DCAT_Catalog>>,
     <<catalog, DCTERMS_title, Literal(<<"Main Data Catalog">>)>>,
     <<catalog, DCTERMS_description,
       Literal(<<"This is the main data catalog for our organization">>)>>}
        \cup OntologyTriples

\* ------------------------------------------------------------ term lookup
\* prepareQuery on the text  FILTER (str(?label) = "%s") % term : the spliced
\* text is read as a double-quoted SPARQL string.  A word stands for itself;
\* a backslash must be followed by an escapable character (here a backslash
\* or a quote) and yields that character; a bare quote ends the string, and
\* whatever is left before the template's own closing quote is then no
\* valid continuation of the filter; a trailing backslash escapes the
\* template's closing quote and the string never ends.
RECURSIVE ScanStringLiteral(_, _)
ScanStringLiteral(rest, decoded) ==
    IF rest = <<>> THEN [raised |-> FALSE, value |-> decoded]
    ELSE IF Head(rest) = QUOTE THEN [raised |-> TRUE, value |-> <<>>]
    ELSE IF Head(rest) = BACKSLASH
         THEN IF Len(rest) >= 2 /\ rest[2] \in {BACKSLASH, QUOTE}
              THEN ScanStringLiteral(Tail(Tail(rest)), Append(decoded, rest[2]))
              ELSE [raised |-> TRUE, value |-> <<>>]
    ELSE ScanStringLiteral(Tail(rest), Append(decoded, Head(rest)))

prepareQuery(term) == ScanStringLiteral(term, <<>>)

\* the rows of  ?term rdfs:label ?label  in store order, filtered on str(?label)
LabelRows(gr, wanted) ==
    SelectSeq(OntologyLabels, LAMBDA t : t \in gr /\ Str(t[3]) = wanted)

RowTerms(rows) == [i \in 1..Len(rows) |-> Str(rows[i][1])]

is_business_term_in_fibo(gr, term) ==
    LET query == prepareQuery(term)
    IN  IF query.raised THEN [raised |-> TRUE, value |-> <<>>]
        ELSE [raised |-> FALSE, value |-> RowTerms(LabelRows(gr, query.value))]

\* ------------------------------------------------------------- term listing
\* prepareQuery on the text  LCASE('{filter}') : the spliced text is read as
\* a single-quoted SPARQL string.  A double quote stands for itself; a
\* backslash must be followed by an escapable character; an apostrophe ends
\* the string and leaves text that is no valid continuation of the filter.
RECURSIVE ScanStringLiteral1(_, _)
ScanStringLiteral1(rest, decoded) ==
    IF rest = <<>> THEN [raised |-> FALSE, value |-> decoded]
    ELSE IF Head(rest) = APOSTROPHE THEN [raised |-> TRUE, value |-> <<>>]
    ELSE IF Head(rest) = BACKSLASH
         THEN IF Len(rest) >= 2 /\ rest[2] \in {BACKSLASH, QUOTE, APOSTROPHE}
              THEN ScanStringLiteral1(Tail(Tail(rest)), Append(decoded, rest[2]))
              ELSE [raised |-> TRUE, value |-> <<>>]
    ELSE ScanStringLiteral1(Tail(rest), Append(decoded, Head(rest)))

\* LCASE: the words of the labels in lower case, any other token unchanged
LowerToken(tok) ==
    CASE tok = "Legal" -> "legal"
      [] tok = "Entity" -> "entity"
      [] OTHER -> tok

LCASE(s) == [i \in 1..Len(s) |-> LowerToken(s[i])]

\* CONTAINS: the second string occurs in the first
CONTAINS(s, sub) ==
    \E i \in 0..Len(s) :
        i + Len(sub) <= Len(s) /\ SubSeq(s, i + 1, i + Len(sub)) = sub

\* Python's None for the limit; a given limit n is <<n>>
NoLimit == <<>>

\* the truth value of  if limit:
TruthyLimit(limit) == limit # NoLimit /\ limit[1] # 0

\* f'{row.term} --> {row.label}'
RowText(row) == Str(row[1]) \o <<" --> ">> \o Str(row[3])

list_fibo_business_terms(gr, limit, filter) ==
    LET scanned == IF Truthy(filter) THEN ScanStringLiteral1(filter, <<>>)
                   ELSE [raised |-> FALSE, value |-> <<>>]
        rows == SelectSeq(OntologyLabels,
                          LAMBDA t : /\ t \in gr
                                     /\ Truthy(filter) =>
                                            CONTAINS(LCASE(Str(t[3])), LCASE(scanned.value)))
        limited == IF TruthyLimit(limit) /\ limit[1] < Len(rows)
                   THEN SubSeq(rows, 1, limit[1]) ELSE rows
    IN  IF scanned.raised THEN [raised |-> TRUE, value |-> <<>>]
        ELSE [raised |-> FALSE, value |-> [i \in 1..Len(limited) |-> RowText(limited[i])]]

\* ------------------------------------------------------------ dataset_exists
\* an ASK whose variable is left unbound: true when any dataset is registered
dataset_exists_unbound(gr, identifier) ==
    \E t \in gr : t[2] = RDF_type /\ t[3] = DCAT_Dataset

\* ASK { ?dataset a dcat:Dataset } with ?dataset bound to the identifier's URI
dataset_exists(gr, identifier) ==
    <<DatasetURI(identifier), RDF_type, DCAT_Dataset>> \in gr

\* ------------------------------------------------------------ delete_dataset
\* a deletion that drops the hasField edges and leaves the Field nodes
RemoveFieldNodes_edges_only(gr, dataset) == gr

RemoveFieldNodes(gr, dataset) ==
    LET fields == Objects(gr, dataset, FIELD_hasField)
    IN  {t \in gr : t[1] \notin fields}

\* a deletion that removes the referenced term nodes with the reference edges
RemoveSeeAlso_and_terms(gr, dataset) ==
    LET business_terms == Objects(gr, dataset, RDFS_seeAlso)
    IN  {t \in gr : t[1] \notin business_terms}
            \ {<<dataset, RDFS_seeAlso, bt>> : bt \in business_terms}

RemoveSeeAlso(gr, dataset) ==
    LET business_terms == Objects(gr, dataset, RDFS_seeAlso)
    IN  gr \ {<<dataset, RDFS_seeAlso, bt>> : bt \in business_terms}

\* a deletion that skips the removal of the dataset node's remaining properties
delete_dataset_keeps_properties(gr, identifier) ==
    LET dataset == DatasetURI(identifier)
        g1 == RemoveFieldNodes(gr, dataset)
        g2 == GraphRemoveSP(g1, dataset, FIELD_hasField)
        g3 == RemoveSeeAlso(g2, dataset)
    IN  GraphRemove(GraphRemove(g3, <<dataset, RDF_type, DCAT_Dataset>>),
                    <<catalog, DCAT_dataset, dataset>>)

\* a deletion that also removes the foreign keys pointing at the dataset
delete_dataset_with_inbound(gr, identifier) ==
    LET dataset == DatasetURI(identifier)
        g1 == RemoveFieldNodes(gr, dataset)
        g2 == GraphRemoveSP(g1, dataset, FIELD_hasField)
        g3 == RemoveSeeAlso(g2, dataset)
        g4 == g3 \ TriplesOfSubject(g3, dataset)
        g5 == {t \in g4 : ~(t[2] = EX_hasForeignKeyTo /\ t[3] = dataset)}
    IN  GraphRemove(g5, <<catalog, DCAT_dataset, dataset>>)

\* a deletion whose hasField removal leaves the subject open as well
delete_dataset_any_hasField(gr, identifier) ==
    LET dataset == DatasetURI(identifier)
        g1 == RemoveFieldNodes(gr, dataset)
        g2 == {t \in g1 : t[2] # FIELD_hasField}
        g3 == RemoveSeeAlso(g2, dataset)
        g4 == g3 \ TriplesOfSubject(g3, dataset)
    IN  GraphRemove(g4, <<catalog, DCAT_dataset, dataset>>)

delete_dataset(gr, identifier) ==
    LET dataset == DatasetURI(identifier)
        g1 == RemoveFieldNodes(gr, dataset)
        g2 == GraphRemoveSP(g1, dataset, FIELD_hasField)
        g3 == RemoveSeeAlso(g2, dataset)
        g4 == g3 \ TriplesOfSubject(g3, dataset)
    IN  GraphRemove(g4, <<catalog, DCAT_dataset, dataset>>)

\* --------------------------------------------------------------- add_dataset
SeqToSet(s) == {s[i] : i \in 1..Len(s)}

WriteHeader(gr, dataset, title, description) ==
    gr \cup {<<dataset, RDF_type, DCAT_Dataset>>,
             <<dataset, DCTERMS_title, Literal(title)>>,
             <<dataset, DCTERMS_description, Literal(description)>>}

WriteTheme(gr, dataset, theme_node, theme) ==
    gr \cup {<<theme_node, RDF_type, SKOS_Concept>>,
             <<theme_node, SKOS_prefLabel, Literal(theme)>>,
             <<dataset, DCAT_theme, theme_node>>}

WriteKeywords(gr, dataset, keywords) ==
    gr \cup {<<dataset, DCAT_keyword, Literal(k)>> : k \in SeqToSet(keywords)}

WriteIssued(gr, dataset, issued) ==
    GraphAdd(gr, <<dataset, DCTERMS_issued, DateLiteral(issued)>>)

\* a linking that consults the resolver with the term as a label first
LinkDatasetTerms_resolved(gr, dataset, business_terms) ==
    LET found == {term \in SeqToSet(business_terms) :
                     Len(is_business_term_in_fibo(gr, term).value) > 0}
    IN  gr \cup {<<dataset, RDFS_seeAlso, NamespaceTerm(FIBO_NS, term)>> : term \in found}
           \cup {<<NamespaceTerm(FIBO_NS, term), RDF_type, OWL_Class>> : term \in found}

LinkDatasetTerms(gr, dataset, business_terms) ==
    gr \cup {<<dataset, RDFS_seeAlso, NamespaceTerm(FIBO_NS, term)>> :
                 term \in SeqToSet(business_terms)}
       \cup {<<NamespaceTerm(FIBO_NS, term), RDF_type, OWL_Class>> :
                 term \in SeqToSet(business_terms)}

\* the target of a field's hasBusinessTerm edge: URIRef(self.FIBO_NS[matches[0]])
FieldTermURI(matches) == NamespaceTerm(FIBO_NS, matches[1])

\* the loop over field['business_terms']; a lookup that raises ends the call
RECURSIVE LinkFieldTerms(_, _, _)
LinkFieldTerms(gr, field_node, bts) ==
    IF bts = <<>> THEN [g |-> gr, raised |-> FALSE]
    ELSE LET matches == is_business_term_in_fibo(gr, Head(bts))
         IN  IF matches.raised THEN [g |-> gr, raised |-> TRUE]
             ELSE IF Len(matches.value) > 0
                  THEN LET bt_uri == FieldTermURI(matches.value)
                       IN  LinkFieldTerms(
                               gr \cup {<<field_node, FIELD_hasBusinessTerm, bt_uri>>,
                                        <<bt_uri, RDF_type, OWL_Class>>},
                               field_node, Tail(bts))
                  ELSE LinkFieldTerms(gr, field_node, Tail(bts))

WriteFieldAttributes(gr, field_node, field) ==
    LET g1 == gr \cup {<<field_node, RDF_type, FIELD_Field>>,
                       <<field_node, FIELD_fieldName, Literal(field.name)>>,
                       <<field_node, FIELD_fieldType, Literal(field.type)>>}
    IN  IF field.description # None
        THEN GraphAdd(g1, <<field_node, FIELD_fieldDescription, Literal(field.description)>>)
        ELSE g1

\* the loop over fields; every field takes one fresh blank node
RECURSIVE AddFields(_, _, _, _)
AddFields(gr, bn, dataset, fields) ==
    IF fields = <<>> THEN [g |-> gr, bnodes |-> bn, raised |-> FALSE]
    ELSE LET field == Head(fields)
             field_node == BNode(bn + 1)
             g1 == WriteFieldAttributes(gr, field_node, field)
             linked == IF field.business_terms # NoneList
                       THEN LinkFieldTerms(g1, field_node, field.business_terms)
                       ELSE [g |-> g1, raised |-> FALSE]
         IN  IF linked.raised
             THEN [g |-> linked.g, bnodes |-> bn + 1, raised |-> TRUE]
             ELSE AddFields(GraphAdd(linked.g, <<dataset, FIELD_hasField, field_node>>),
                            bn + 1, dataset, Tail(fields))

add_dataset(gr, bn, identifier, D) ==
    LET dataset == DatasetURI(identifier)
        g0 == IF dataset_exists(gr, identifier) THEN delete_dataset(gr, identifier) ELSE gr
        g1 == WriteHeader(g0, dataset, D.title, D.description)
        bn2 == IF Truthy(D.theme) THEN bn + 1 ELSE bn
        g2 == IF Truthy(D.theme) THEN WriteTheme(g1, dataset, BNode(bn + 1), D.theme) ELSE g1
        g3 == IF TruthyList(D.keywords) THEN WriteKeywords(g2, dataset, D.keywords) ELSE g2
        g4 == IF Truthy(D.issued) THEN WriteIssued(g3, dataset, D.issued) ELSE g3
        g5 == IF TruthyList(D.business_terms)
              THEN LinkDatasetTerms(g4, dataset, D.business_terms) ELSE g4
        withFields == IF TruthyFields(D.fields) THEN AddFields(g5, bn2, dataset, D.fields)
                      ELSE [g |-> g5, bnodes |-> bn2, raised |-> FALSE]
    IN  IF withFields.raised
        THEN [g |-> withFields.g, bnodes |-> withFields.bnodes, result |-> "ParseException"]
        ELSE [g |-> GraphAdd(withFields.g, <<catalog, DCAT_dataset, dataset>>),
              bnodes |-> withFields.bnodes, result |-> "True"]

\* ------------------------------------------------ add_foreign_key_relationship
\* a relationship that may be declared once only
add_foreign_key_relationship_once(gr, from_dataset, to_dataset, description) ==
    IF \/ ~dataset_exists(gr, from_dataset) \/ ~dataset_exists(gr, to_dataset)
       \/ <<DatasetURI(from_dataset), EX_hasForeignKeyTo, DatasetURI(to_dataset)>> \in gr
    THEN [g |-> gr, result |-> "ValueError"]
    ELSE LET from_uri == DatasetURI(from_dataset)
             to_uri == DatasetURI(to_dataset)
             g1 == GraphAdd(gr, <<from_uri, EX_hasForeignKeyTo, to_uri>>)
         IN  [g |-> IF Truthy(description)
                    THEN GraphAdd(g1, <<from_uri, RDFS_comment, Literal(description)>>)
                    ELSE g1,
              result |-> "True"]

\* a check that fails only when both datasets are missing
add_foreign_key_relationship_and(gr, from_dataset, to_dataset, description) ==
    IF ~dataset_exists(gr, from_dataset) /\ ~dataset_exists(gr, to_dataset)
    THEN [g |-> gr, result |-> "ValueError"]
    ELSE LET from_uri == DatasetURI(from_dataset)
             to_uri == DatasetURI(to_dataset)
             g1 == GraphAdd(gr, <<from_uri, EX_hasForeignKeyTo, to_uri>>)
         IN  [g |-> IF Truthy(description)
                    THEN GraphAdd(g1, <<from_uri, RDFS_comment, Literal(description)>>)
                    ELSE g1,
              result |-> "True"]

add_foreign_key_relationship(gr, from_dataset, to_dataset, description) ==
    IF ~dataset_exists(gr, from_dataset) \/ ~dataset_exists(gr, to_dataset)
    THEN [g |-> gr, result |-> "ValueError"]
    ELSE LET from_uri == DatasetURI(from_dataset)
             to_uri == DatasetURI(to_dataset)
             g1 == GraphAdd(gr, <<from_uri, EX_hasForeignKeyTo, to_uri>>)
         IN  [g |-> IF Truthy(description)
                    THEN GraphAdd(g1, <<from_uri, RDFS_comment, Literal(description)>>)
                    ELSE g1,
              result |-> "True"]

\* ------------------------------------------------------------------ inputs
Identifiers == {<<"orders">>, <<"customers">>}

Field(name, type, description, business_terms) ==
    [name |-> name, type |-> type, description |-> description,
     business_terms |-> business_terms]

PayloadNames == {"scenario", "full", "bare", "quoted"}

Payload(n) ==
    CASE n = "scenario" ->
           [title |-> <<"Orders">>, description |-> <<"Order", " ", "records">>,
            theme |-> None, keywords |-> NoneList, issued |-> None,
            business_terms |-> NoneList,
            fields |-> << Field(<<"order_id">>, <<"string">>, None, NoneList),
                          Field(<<"customer">>, <<"string">>, None, <<LegalEntity>>) >>]
      [] n = "full" ->
           [title |-> <<"Sales">>, description |-> <<"Sales", " ", "records">>,
            theme |-> <<"http://example.org/themes/", "finance">>,
            keywords |-> << <<"sales">>, <<"sales">>, <<"finance">> >>,
            issued |-> <<"2024-01-01">>,
            business_terms |-> << <<"LegalEntity">>, <<"Unknown">> >>,
            fields |-> << Field(<<"amount">>, <<"decimal">>, <<"Amount">>,
                                << legal_entity, <<"Entity">> >>) >>]
      [] n = "bare" ->
           [title |-> <<"Orders">>, description |-> <<>>,
            theme |-> <<>>, keywords |-> <<>>, issued |-> None, business_terms |-> <<>>,
            fields |-> NoFields]
      [] n = "quoted" ->
           [title |-> <<"Parties">>, description |-> <<"Party", " ", "records">>,
            theme |-> None, keywords |-> NoneList, issued |-> None,
            business_terms |-> << <<"QuotedEntity">> >>,
            fields |-> << Field(<<"id">>, <<"string">>, None, <<>>),
                          Field(<<"owner">>, <<"string">>, None,
                                << <<QUOTE, "Legal", QUOTE>> >>) >>]

Descriptions == {None, <<>>, <<"references">>}

ForeignKeyTargets == {<<"customers">>}

\* every string of at most MaxTermLen tokens over the alphabet of the labels
MaxTermLen == 3

Alphabet == {"Legal", " ", "Entity", "legal", "entity", QUOTE, BACKSLASH}

LookupTerms == UNION {[1..k -> Alphabet] : k \in 0..MaxTermLen}

\* the limits of a listing: none, or a number up to MaxLimit
MaxLimit == 2

Limits == {NoLimit} \cup {<<n>> : n \in 0..MaxLimit}

\* the filters of a listing: none, or a string of at most MaxFilterLen tokens
MaxFilterLen == 2

FilterAlphabet == {"Legal", "entity", " ", QUOTE, BACKSLASH, APOSTROPHE}

Filters == {None} \cup UNION {[1..k -> FilterAlphabet] : k \in 0..MaxFilterLen}

\* ------------------------------------------------------------ state machine
\* what the dataset held before a call: whether it was registered, how many
\* Field nodes it owned, how many term nodes it or its fields pointed at
FieldsOf(gr, identifier) == Objects(gr, DatasetURI(identifier), FIELD_hasField)

ThemesOf(gr, identifier) == Objects(gr, DatasetURI(identifier), DCAT_theme)

TermsOf(gr, identifier) ==
    Objects(gr, DatasetURI(identifier), RDFS_seeAlso)
        \cup UNION {Objects(gr, f, FIELD_hasBusinessTerm) : f \in FieldsOf(gr, identifier)}

NoCall ==
    [op |-> "init", identifier |-> None, payload |-> "", to |-> None,
     description |-> None, term |-> None, result |-> "", value |-> <<>>,
     existed |-> FALSE, nfields |-> 0, nthemes |-> 0, nterms |-> 0]

Call(op, identifier, payload, to, description, term, result, value) ==
    [op |-> op, identifier |-> identifier, payload |-> payload, to |-> to,
     description |-> description, term |-> term, result |-> result, value |-> value,
     existed |-> IF identifier = None THEN FALSE ELSE dataset_exists(g, identifier),
     nfields |-> IF identifier = None THEN 0 ELSE Cardinality(FieldsOf(g, identifier)),
     nthemes |-> IF identifier = None THEN 0 ELSE Cardinality(ThemesOf(g, identifier)),
     nterms |-> IF identifier = None THEN 0 ELSE Cardinality(TermsOf(g, identifier))]

\* the provisioning requests the service has in flight at once
Requests == {1, 2}

\* a request that is not in flight
Idle ==
    [pc |-> "idle", identifier |-> None, payload |-> "", k |-> 0, node |-> 0,
     old |-> {}, new |-> {}, g0 |-> {}, bn0 |-> 0]

\* where the construction  catalog = DCATCatalog()  stands, and how often the
\* ontology has been fetched and merged
Constructed == [pc |-> "ready", fetches |-> 1, merges |-> 1]

\* the state after  catalog = DCATCatalog()  has returned
Init ==
    /\ g = InitialGraph
    /\ bnodes = 0
    /\ lastCall = NoCall
    /\ phase = Constructed
    /\ inflight = [r \in Requests |-> Idle]

AddDataset ==
    \E identifier \in Identifiers, n \in PayloadNames :
        LET r == add_dataset(g, bnodes, identifier, Payload(n))
        IN  /\ r.bnodes <= MaxBNodes
            /\ g' = r.g
            /\ bnodes' = r.bnodes
            /\ lastCall' = Call("add_dataset", identifier, n, None, None, None,
                                r.result, <<>>)
            /\ UNCHANGED <<phase, inflight>>

DeleteDataset ==
    \E identifier \in Identifiers :
        /\ g' = delete_dataset(g, identifier)
        /\ lastCall' = Call("delete_dataset", identifier, "", None, None, None,
                            "None", <<>>)
        /\ UNCHANGED <<bnodes, phase, inflight>>

AddForeignKey ==
    \E from_dataset \in Identifiers, to_dataset \in ForeignKeyTargets,
       description \in Descriptions :
        LET r == add_foreign_key_relationship(g, from_dataset, to_dataset, description)
        IN  /\ g' = r.g
            /\ lastCall' = Call("add_foreign_key_relationship", from_dataset, "",
                                to_dataset, description, None, r.result, <<>>)
            /\ UNCHANGED <<bnodes, phase, inflight>>

IsBusinessTermInFibo ==
    \E term \in LookupTerms :
        LET r == is_business_term_in_fibo(g, term)
        IN  /\ lastCall' = Call("is_business_term_in_fibo", None, "", None, None, term,
                                IF r.raised THEN "ParseException" ELSE "list", r.value)
            /\ UNCHANGED <<g, bnodes, phase, inflight>>

\* a listing call: the record of a call with the limit it was given
ListFiboBusinessTerms ==
    \E limit \in Limits, filter \in Filters :
        LET r == list_fibo_business_terms(g, limit, filter)
        IN  /\ lastCall' = [limit |-> limit]
                              @@ Call("list_fibo_business_terms", None, "", None, None,
                                      filter, IF r.raised THEN "ParseException" ELSE "list",
                                      r.value)
            /\ UNCHANGED <<g, bnodes, phase, inflight>>

Next ==
    \/ AddDataset
    \/ DeleteDataset
    \/ AddForeignKey

Spec == Init /\ [][Next]_vars

\* the sequences of calls that all complete: no call raises
AddDatasetReturned == AddDataset /\ lastCall'.result = "True"

AddForeignKeyReturned == AddForeignKey /\ lastCall'.result = "True"

NextReturned ==
    \/ AddDatasetReturned
    \/ DeleteDataset
    \/ AddForeignKeyReturned

SpecReturned == Init /\ [][NextReturned]_vars

\* the term lookup alone: it reads the label statements, which no operation
\* of the catalog writes or removes
NextLookup ==
    \/ IsBusinessTermInFibo
    \/ ListFiboBusinessTerms

SpecLookup == Init /\ [][NextLookup]_vars

\* ------------------------------------------------------------ construction
\* the import of main.py up to the statement  catalog = DCATCatalog()
InitStartup ==
    /\ g = {}
    /\ bnodes = 0
    /\ lastCall = NoCall
    /\ phase = [pc |-> "import", fetches |-> 0, merges |-> 0]
    /\ inflight = [r \in Requests |-> Idle]

\* __init__ up to the catalog node's three statements
CreateGraph ==
    /\ phase.pc = "import"
    /\ g' = {<<catalog, RDF_type, DCAT_Catalog>>,
             <<catalog, DCTERMS_title, Literal(<<"Main Data Catalog">>)>>,
             <<catalog, DCTERMS_description,
               Literal(<<"This is the main data catalog for our organization">>)>>}
    /\ phase' = [phase EXCEPT !.pc = "created"]
    /\ UNCHANGED <<bnodes, lastCall, inflight>>

\* download_fibo_ontology: the text of the document, or the request's error
\* raised again
DownloadOntology ==
    /\ phase.pc = "created"
    /\ \E ok \in BOOLEAN :
           phase' = [phase EXCEPT !.pc = IF ok THEN "downloaded" ELSE "failed",
                                  !.fetches = phase.fetches + 1]
    /\ UNCHANGED <<g, bnodes, lastCall, inflight>>

\* load_ontology_into_graph: Graph.parse merges the document, or raises on a
\* text that is no Turtle after the statements read so far are merged; when
\* it returns, __init__ returns and main.py binds the name  catalog
LoadOntology ==
    /\ phase.pc = "downloaded"
    /\ \/ /\ g' = g \cup OntologyTriples
          /\ phase' = [phase EXCEPT !.pc = "ready", !.merges = phase.merges + 1]
       \/ /\ \E n \in 0..Len(OntologyLabels) :
                 g' = g \cup {OntologyLabels[i] : i \in 1..n}
          /\ phase' = [phase EXCEPT !.pc = "failed"]
    /\ UNCHANGED <<bnodes, lastCall, inflight>>

\* a catalog whose name is bound as soon as the graph is created
CatalogAvailable_early(ph) == ph.pc \in {"created", "downloaded", "ready"}

\* the handlers use the module's name  catalog , bound when the constructor
\* has returned; an exception in the constructor ends the import of main.py
CatalogAvailable(ph) == ph.pc = "ready"

Serve == CatalogAvailable(phase) /\ Next

NextStartup ==
    \/ CreateGraph
    \/ DownloadOntology
    \/ LoadOntology
    \/ Serve

SpecStartup == InitStartup /\ [][NextStartup]_vars

\* ------------------------------------------------- provisioning requests
\* add_dataset statement by statement, as a thread that reads the store
\* between two statements of the call sees it.  pc names the statement the
\* call is about to run; k is the index of the field in the loop, node the
\* number of that field's blank node; old is the set of Field nodes the
\* dataset owned when the call was entered, new the Field nodes the call has
\* created; g0 and bn0 are the store and the blank node counter at entry.
DeletePcs == {"exists", "del_fields", "del_hasField", "del_seeAlso", "del_props",
              "del_catalog"}

WritePcs == {"header", "theme", "keywords", "issued", "terms", "field_attrs",
             "field_terms", "field_edge", "catalog"}

RunningPcs == DeletePcs \cup WritePcs

\* an upsert that goes on to write without deleting the old registration
AfterExists_skip_delete(gr, identifier) == "header"

\* if self.dataset_exists(identifier): self.delete_dataset(identifier)
AfterExists(gr, identifier) ==
    IF dataset_exists(gr, identifier) THEN "del_fields" ELSE "header"

StepAddDataset(gr, bn, c) ==
    LET dataset == DatasetURI(c.identifier)
        D == Payload(c.payload)
        same(pc) == [g |-> gr, bnodes |-> bn, call |-> [c EXCEPT !.pc = pc]]
        to(gr2, pc) == [g |-> gr2, bnodes |-> bn, call |-> [c EXCEPT !.pc = pc]]
    IN  CASE c.pc = "exists" -> same(AfterExists(gr, c.identifier))
          [] c.pc = "del_fields" -> to(RemoveFieldNodes(gr, dataset), "del_hasField")
          [] c.pc = "del_hasField" ->
                to(GraphRemoveSP(gr, dataset, FIELD_hasField), "del_seeAlso")
          [] c.pc = "del_seeAlso" -> to(RemoveSeeAlso(gr, dataset), "del_props")
          [] c.pc = "del_props" -> to(gr \ TriplesOfSubject(gr, dataset), "del_catalog")
          [] c.pc = "del_catalog" ->
                to(GraphRemove(gr, <<catalog, DCAT_dataset, dataset>>), "header")
          [] c.pc = "header" -> to(WriteHeader(gr, dataset, D.title, D.description), "theme")
          [] c.pc = "theme" ->
                IF Truthy(D.theme)
                THEN [g |-> WriteTheme(gr, dataset, BNode(bn + 1), D.theme),
                      bnodes |-> bn + 1, call |-> [c EXCEPT !.pc = "keywords"]]
                ELSE same("keywords")
          [] c.pc = "keywords" ->
                IF TruthyList(D.keywords)
                THEN to(WriteKeywords(gr, dataset, D.keywords), "issued")
                ELSE same("issued")
          [] c.pc = "issued" ->
                IF Truthy(D.issued) THEN to(WriteIssued(gr, dataset, D.issued), "terms")
                ELSE same("terms")
          [] c.pc = "terms" ->
                LET first == IF TruthyFields(D.fields) THEN "field_attrs" ELSE "catalog"
                    gr2 == IF TruthyList(D.business_terms)
                           THEN LinkDatasetTerms(gr, dataset, D.business_terms) ELSE gr
                IN  [g |-> gr2, bnodes |-> bn, call |-> [c EXCEPT !.pc = first, !.k = 1]]
          [] c.pc = "field_attrs" ->
                [g |-> WriteFieldAttributes(gr, BNode(bn + 1), D.fields[c.k]),
                 bnodes |-> bn + 1,
                 call |-> [c EXCEPT !.pc = "field_terms", !.node = bn + 1,
                                    !.new = c.new \cup {BNode(bn + 1)}]]
          [] c.pc = "field_terms" ->
                LET field == D.fields[c.k]
                    linked == IF field.business_terms # NoneList
                              THEN LinkFieldTerms(gr, BNode(c.node), field.business_terms)
                              ELSE [g |-> gr, raised |-> FALSE]
                IN  to(linked.g, IF linked.raised THEN "raised" ELSE "field_edge")
          [] c.pc = "field_edge" ->
                [g |-> GraphAdd(gr, <<dataset, FIELD_hasField, BNode(c.node)>>),
                 bnodes |-> bn,
                 call |-> IF c.k < Len(D.fields)
                          THEN [c EXCEPT !.pc = "field_attrs", !.k = c.k + 1]
                          ELSE [c EXCEPT !.pc = "catalog"]]
          [] c.pc = "catalog" ->
                to(GraphAdd(gr, <<catalog, DCAT_dataset, dataset>>), "returned")

\* a handler run by a pool of threads, which takes a request at any time
LoopFree_threads(calls, r) == TRUE

\* provision is a coroutine: the event loop runs it from the end of its one
\* await to its return without running another coroutine in between
LoopFree(calls, r) == \A other \in Requests \ {r} : calls[other].pc \notin RunningPcs

\* the request arrives with its descriptor and waits in
\* await unpack_provisioning_request(body)
Receive(r) ==
    /\ inflight[r].pc = "idle"
    /\ \E identifier \in Identifiers, n \in PayloadNames :
           inflight' = [inflight EXCEPT ![r] =
                           [Idle EXCEPT !.pc = "unpack", !.identifier = identifier,
                                        !.payload = n]]
    /\ UNCHANGED <<g, bnodes, lastCall, phase>>

\* the coroutine is resumed and enters catalog.add_dataset for its component
Enter(r) ==
    /\ inflight[r].pc = "unpack"
    /\ LoopFree(inflight, r)
    /\ LET c == inflight[r]
       IN  /\ add_dataset(g, bnodes, c.identifier, Payload(c.payload)).bnodes <= MaxBNodes
           /\ inflight' = [inflight EXCEPT ![r] =
                             [c EXCEPT !.pc = "exists", !.old = FieldsOf(g, c.identifier),
                                       !.g0 = g, !.bn0 = bnodes]]
    /\ UNCHANGED <<g, bnodes, lastCall, phase>>

\* one statement of the call; after the last one, or after a raise, the
\* coroutine ends and the request is answered
Step(r) ==
    /\ inflight[r].pc \in RunningPcs
    /\ LET s == StepAddDataset(g, bnodes, inflight[r])
       IN  /\ g' = s.g
           /\ bnodes' = s.bnodes
           /\ inflight' = [inflight EXCEPT ![r] =
                             IF s.call.pc \in RunningPcs THEN s.call ELSE Idle]
    /\ UNCHANGED <<lastCall, phase>>

NextRequests == \E r \in Requests : Receive(r) \/ Enter(r) \/ Step(r)

\* the store as a reader thread (get_catalog) can see it: every state
\* between two statements of a call is a state of this specification
SpecRequests == Init /\ [][NextRequests]_vars

\* ================================================================== claims
\* the statements about a node, without the node's own name
Shape(gr, node) == {<<t[2], t[3]>> : t \in TriplesOfSubject(gr, node)}

\* how many nodes of a set have each shape: equal for two sets of blank nodes
\* exactly when one is a renaming of the other
ShapeCount(gr, nodes) ==
    [shape \in {Shape(gr, n) : n \in nodes} |->
        Cardinality({n \in nodes : Shape(gr, n) = shape})]

\* the dataset's subtree up to renaming of its anonymous nodes
Subtree(gr, identifier) ==
    LET dataset == DatasetURI(identifier)
    IN  [attributes |-> {<<t[2], t[3]>> :
                            t \in {u \in TriplesOfSubject(gr, dataset) :
                                      u[2] \notin {FIELD_hasField, DCAT_theme}}},
         fields |-> ShapeCount(gr, FieldsOf(gr, identifier)),
         themes |-> ShapeCount(gr, ThemesOf(gr, identifier)),
         catalogEdges |-> Cardinality({t \in gr : t = <<catalog, DCAT_dataset, dataset>>})]

\* C1: after add_dataset(id, D), calling add_dataset(id, D) again leaves the
\* dataset's subtree as it was, up to renaming of anonymous nodes: the same
\* attributes, keyword literals and seeAlso edges, the same number of Field
\* and Theme nodes with the same statements, and, when the call returned,
\* exactly one Catalog-to-Dataset edge.
C1_IdempotentReRegistration ==
    lastCall.op = "add_dataset" =>
        LET again == add_dataset(g, bnodes, lastCall.identifier, Payload(lastCall.payload))
        IN  /\ Subtree(again.g, lastCall.identifier) = Subtree(g, lastCall.identifier)
            /\ again.result = lastCall.result
            /\ lastCall.result = "True" =>
                   Subtree(again.g, lastCall.identifier).catalogEdges = 1

\* add_dataset returned for a payload with a theme, repeated keywords, terms
\* and a field, on an identifier that was registered before
C1_Witness ==
    /\ lastCall.op = "add_dataset"
    /\ lastCall.result = "True"
    /\ lastCall.existed
    /\ lastCall.nfields >= 1
    /\ Cardinality(FieldsOf(g, lastCall.identifier)) >= 1
    /\ Cardinality(ThemesOf(g, lastCall.identifier)) = 1
    /\ Cardinality(Objects(g, DatasetURI(lastCall.identifier), DCAT_keyword)) >= 2

\* the statements a registration holds: about the Dataset node, about its
\* Field nodes and about its Theme node
RegistrationFacts(gr, identifier) ==
    TriplesOfSubject(gr, DatasetURI(identifier))
        \cup {t \in gr : t[1] \in FieldsOf(gr, identifier)}
        \cup {t \in gr : t[1] \in ThemesOf(gr, identifier)}

\* C2: when add_dataset replaces a registered dataset, or delete_dataset
\* deletes one, every statement of the previous registration (the Dataset
\* node's attributes and edges, its Field nodes' statements, its Theme node's
\* type and preferred label) is gone afterwards, unless the new payload
\* writes that very statement again.
C2_FullStructuralReplacement ==
    [][(lastCall'.op \in {"add_dataset", "delete_dataset"} /\ lastCall'.existed) =>
          LET identifier == lastCall'.identifier
              written == IF lastCall'.op = "add_dataset"
                         THEN add_dataset(InitialGraph, bnodes, identifier,
                                          Payload(lastCall'.payload)).g
                         ELSE {}
          IN  \A t \in RegistrationFacts(g, identifier) : t \in g' => t \in written]_vars

\* C3: delete_dataset(id) leaves no statement whose subject is the Dataset
\* node or one of the Field nodes it owned, no hasField edge from it and no
\* Catalog-to-Dataset edge for it, while every term node the dataset or its
\* fields pointed at keeps its Class typing.
C3_CascadeDelete ==
    [][lastCall'.op = "delete_dataset" =>
          LET identifier == lastCall'.identifier
              dataset == DatasetURI(identifier)
          IN  /\ \A t \in g' : t[1] # dataset /\ t[1] \notin FieldsOf(g, identifier)
              /\ Objects(g', dataset, FIELD_hasField) = {}
              /\ <<catalog, DCAT_dataset, dataset>> \notin g'
              /\ \A term \in TermsOf(g, identifier) :
                     <<term, RDF_type, OWL_Class>> \in g']_vars

\* delete_dataset ran on a registered dataset that owned a field and pointed
\* at terms, and a term typed on linking is still in the store
C3_Witness ==
    /\ lastCall.op = "delete_dataset"
    /\ lastCall.existed
    /\ lastCall.nfields >= 1
    /\ lastCall.nterms >= 1
    /\ \E t \in g : t[2] = RDF_type /\ t[3] = OWL_Class /\ t \notin InitialGraph

\* the business-term nodes: the subjects of the ontology's statements and the
\* nodes typed Class on linking
TermNodes(gr) ==
    {t[1] : t \in OntologyTriples}
        \cup {t[1] : t \in {u \in gr : u[2] = RDF_type /\ u[3] = OWL_Class}}

\* C4: no call removes a statement whose subject is a business-term node, and
\* the only statements pointing at a term node that a call removes are
\* seeAlso and hasBusinessTerm edges.
C4_BusinessTermsNeverDeleted ==
    [][/\ \A t \in g : t[1] \in TermNodes(g) => t \in g'
       /\ \A t \in g \ g' : t[3] \in TermNodes(g) =>
              t[2] \in {RDFS_seeAlso, FIELD_hasBusinessTerm}]_vars

\* a registered dataset that pointed at terms was deleted or replaced, and
\* the store still holds the ontology and a Class typing asserted on linking
C4_Witness ==
    /\ lastCall.op \in {"delete_dataset", "add_dataset"}
    /\ lastCall.existed
    /\ lastCall.nterms >= 2
    /\ OntologyTriples \subseteq g
    /\ \E t \in g : /\ t[2] = RDF_type /\ t[3] = OWL_Class /\ t \notin InitialGraph
                    /\ \A u \in g : u[3] # t[1]

\* C5: add_foreign_key_relationship raises exactly when the source or the
\* target dataset does not exist, and then leaves the store as it was; when
\* both exist it returns, adding the hasForeignKeyTo edge and, for a
\* description that is given and not empty, the comment literal on the
\* source, and nothing else.
C5_ForeignKeyReferentialIntegrity ==
    [][lastCall'.op = "add_foreign_key_relationship" =>
          LET from_uri == DatasetURI(lastCall'.identifier)
              to_uri == DatasetURI(lastCall'.to)
              missing == \/ <<from_uri, RDF_type, DCAT_Dataset>> \notin g
                         \/ <<to_uri, RDF_type, DCAT_Dataset>> \notin g
              comment == IF lastCall'.description \notin {None, <<>>}
                         THEN {<<from_uri, RDFS_comment, Literal(lastCall'.description)>>}
                         ELSE {}
          IN  /\ lastCall'.result = (IF missing THEN "ValueError" ELSE "True")
              /\ missing => g' = g
              /\ ~missing => g' = g \cup {<<from_uri, EX_hasForeignKeyTo, to_uri>>} \cup comment]_vars

\* a call failed on a missing target while the source existed
C5_WitnessRejected ==
    /\ lastCall.op = "add_foreign_key_relationship"
    /\ lastCall.result = "ValueError"
    /\ lastCall.existed

\* C7: after add_dataset, for every entry t of business_terms the Dataset has
\* a seeAlso edge to the term identifier made of the ontology namespace and t,
\* and that node is typed Class, whatever the lookup of t would return.
C7_DatasetTermsUnconditional ==
    lastCall.op = "add_dataset" =>
        LET business_terms == Payload(lastCall.payload).business_terms
            dataset == DatasetURI(lastCall.identifier)
        IN  business_terms # NoneList =>
                \A i \in 1..Len(business_terms) :
                    /\ <<dataset, RDFS_seeAlso, URIRef(FIBO_NS \o business_terms[i])>> \in g
                    /\ <<URIRef(FIBO_NS \o business_terms[i]), RDF_type, OWL_Class>> \in g

\* add_dataset returned for a payload with a dataset-level term that no
\* ontology statement is about and no label matches
C7_Witness ==
    /\ lastCall.op = "add_dataset"
    /\ lastCall.result = "True"
    /\ LET business_terms == Payload(lastCall.payload).business_terms
       IN  /\ TruthyList(business_terms)
           /\ \E i \in 1..Len(business_terms) :
                  /\ is_business_term_in_fibo(g, business_terms[i]).value = <<>>
                  /\ \A t \in OntologyTriples : t[1] # URIRef(FIBO_NS \o business_terms[i])

\* C8: delete_dataset on an identifier that is not registered returns without
\* error and leaves the whole store as it was; a delete_dataset that follows
\* a delete_dataset of the same identifier changes nothing.
C8_DeleteMissingIsNoOp ==
    [][lastCall'.op = "delete_dataset" =>
          /\ ~lastCall'.existed => (g' = g /\ lastCall'.result = "None")
          /\ (lastCall.op = "delete_dataset"
              /\ lastCall.identifier = lastCall'.identifier) => g' = g]_vars

\* delete_dataset ran on an unregistered identifier that a foreign key of
\* another dataset still points at
C8_Witness ==
    /\ lastCall.op = "delete_dataset"
    /\ ~lastCall.existed
    /\ \E t \in g : t[2] = EX_hasForeignKeyTo /\ t[3] = DatasetURI(lastCall.identifier)

\* the labels of a field dictionary, none when the key is absent
FieldLabels(field) ==
    IF field.business_terms = NoneList THEN {} ELSE SeqToSet(field.business_terms)

\* the Field nodes of a dataset that carry a given name
FieldNodesNamed(gr, identifier, name) ==
    {f \in FieldsOf(gr, identifier) : <<f, FIELD_fieldName, Literal(name)>> \in gr}

\* C6: after add_dataset returns, each field's hasBusinessTerm edges are
\* exactly one per declared label whose lookup returns an identifier, the
\* target being the first returned identifier itself, typed Class; a label
\* whose lookup returns nothing gives no edge.
C6_FieldTermLinking ==
    (lastCall.op = "add_dataset" /\ lastCall.result = "True"
     /\ Payload(lastCall.payload).fields # NoFields) =>
        LET fields == Payload(lastCall.payload).fields
        IN  \A i \in 1..Len(fields) :
                LET resolved == {label \in FieldLabels(fields[i]) :
                                    Len(is_business_term_in_fibo(g, label).value) > 0}
                    targets == {URIRef(is_business_term_in_fibo(g, label).value[1]) :
                                   label \in resolved}
                IN  /\ FieldNodesNamed(g, lastCall.identifier, fields[i].name) # {}
                    /\ \A f \in FieldNodesNamed(g, lastCall.identifier, fields[i].name) :
                           Objects(g, f, FIELD_hasBusinessTerm) = targets
                    /\ \A target \in targets : <<target, RDF_type, OWL_Class>> \in g

\* the nodes that carry a label literal whose string equals the term
NodesLabelled(gr, term) ==
    {Str(t[1]) : t \in {u \in gr : u[2] = RDFS_label /\ Str(u[3]) = term}}

\* C9: is_business_term_in_fibo(label) returns the identifiers of exactly the
\* nodes that carry a label literal whose string equals the given label,
\* case-sensitively: one identifier for "Legal Entity", none for
\* "legal entity".
C9_ExactMatchResolution ==
    lastCall.op = "is_business_term_in_fibo" =>
        /\ lastCall.result = "list"
        /\ SeqToSet(lastCall.value) = NodesLabelled(g, lastCall.term)
        /\ lastCall.term = LegalEntity => lastCall.value = <<Str(T1)>>
        /\ lastCall.term = legal_entity => lastCall.value = <<>>

\* C10: after add_dataset, every declared field label that equals no ontology
\* label, quote and backslash characters included, was looked up without an
\* exception with an empty result, and the call returned with no
\* hasBusinessTerm edge for it.
C10_UnresolvedLabelIsNoError ==
    (lastCall.op = "add_dataset" /\ Payload(lastCall.payload).fields # NoFields) =>
        LET fields == Payload(lastCall.payload).fields
        IN  \A i \in 1..Len(fields) :
                \A label \in FieldLabels(fields[i]) :
                    NodesLabelled(g, label) = {} =>
                        /\ ~is_business_term_in_fibo(g, label).raised
                        /\ is_business_term_in_fibo(g, label).value = <<>>
                        /\ lastCall.result = "True"

\* the rows a listing is to return for a filter: one per label statement of
\* the store whose label contains the filter, case-insensitively
MatchingRows(gr, filter) ==
    {RowText(t) : t \in {u \in gr : /\ u[2] = RDFS_label
                                     /\ Truthy(filter) =>
                                            CONTAINS(LCASE(Str(u[3])), LCASE(filter))}}

\* C11: a listing that returns has, for every limit given (0 included), at
\* most limit entries; with no limit it returns every matching distinct
\* term; with a filter it returns only terms whose label contains the filter,
\* case-insensitively.
C11_LimitAndFilter ==
    (lastCall.op = "list_fibo_business_terms" /\ lastCall.result = "list") =>
        /\ lastCall.limit # NoLimit => Len(lastCall.value) <= lastCall.limit[1]
        /\ lastCall.limit = NoLimit =>
               SeqToSet(lastCall.value) = MatchingRows(g, lastCall.term)
        /\ SeqToSet(lastCall.value) \subseteq MatchingRows(g, lastCall.term)

\* C12: within one add_dataset call on a registered identifier, every removal
\* of the old registration comes before the first new statement: while the
\* call writes, no Field node of the old registration is left, and no state
\* of the call holds a Field node of the old and one of the new registration.
C12_DeleteBeforeWrite ==
    \A r \in Requests :
        LET c == inflight[r]
            oldLeft == {f \in c.old : TriplesOfSubject(g, f) # {}}
            newThere == {f \in c.new : TriplesOfSubject(g, f) # {}}
        IN  c.pc \in RunningPcs =>
                /\ oldLeft = {} \/ newThere = {}
                /\ c.pc \in WritePcs => oldLeft = {}
                /\ c.pc \in DeletePcs => g \subseteq c.g0

\* a call on an identifier that owned Field nodes has written its first new
\* Field node
C12_Witness ==
    \E r \in Requests :
        /\ inflight[r].pc = "field_terms"
        /\ inflight[r].old # {}
        /\ \E f \in inflight[r].new : <<f, RDF_type, FIELD_Field>> \in g

\* C13: with several provisioning requests in flight, at most one
\* add_dataset call on a given identifier is in progress at any time, and a
\* call that ends leaves the store that the whole operation, applied alone
\* to the store the call found when it was entered, leaves: the store after
\* the requests is the store after running them one after another.
C13_SerializedMutation ==
    [][/\ \A identifier \in Identifiers :
              Cardinality({r \in Requests : /\ inflight'[r].pc \in RunningPcs
                                            /\ inflight'[r].identifier = identifier}) <= 1
       /\ \A r \in Requests :
              (inflight[r].pc \in RunningPcs /\ inflight'[r].pc = "idle") =>
                  LET c == inflight[r]
                      alone == add_dataset(c.g0, c.bn0, c.identifier, Payload(c.payload))
                      ended == StepAddDataset(g, bnodes, c).call.pc
                  IN  /\ g' = alone.g
                      /\ bnodes' = alone.bnodes
                      /\ (ended = "returned") = (alone.result = "True")]_vars

\* a call on a registered identifier is in the middle of its writes while a
\* second request for the same identifier is in flight
C13_Witness ==
    \E r, other \in Requests :
        /\ r # other
        /\ inflight[r].pc \in WritePcs
        /\ inflight[r].old # {}
        /\ inflight[other].pc = "unpack"
        /\ inflight[other].identifier = inflight[r].identifier

\* C14: the ontology is fetched and merged once, during construction; every
\* catalog operation runs on a store that holds the merged ontology; after a
\* failed fetch or parse no operation runs at all.
C14_OntologyMergedFirst ==
    /\ phase.fetches <= 1
    /\ phase.merges <= 1
    /\ lastCall # NoCall =>
           /\ phase = Constructed
           /\ OntologyTriples \subseteq g
    /\ phase.pc = "ready" => InitialGraph \subseteq g

\* an add_dataset call that resolved a field's label has run after the
\* construction
C14_Witness ==
    /\ phase = Constructed
    /\ lastCall.op = "add_dataset"
    /\ \E t \in g : t[2] = FIELD_hasBusinessTerm

\* C15: dataset_exists(id) is true exactly when the node of that identifier
\* in the dataset namespace is typed Dataset; it is true after add_dataset(id),
\* false after delete_dataset(id), and no call on another identifier and no
\* add_foreign_key_relationship call changes it.
C15_DatasetExists ==
    [][\A identifier \in Identifiers :
          /\ dataset_exists(g', identifier) =
                 (<<DatasetURI(identifier), RDF_type, DCAT_Dataset>> \in g')
          /\ IF lastCall'.op = "add_dataset" /\ lastCall'.identifier = identifier
             THEN dataset_exists(g', identifier)
             ELSE IF lastCall'.op = "delete_dataset" /\ lastCall'.identifier = identifier
             THEN ~dataset_exists(g', identifier)
             ELSE dataset_exists(g', identifier) = dataset_exists(g, identifier)]_vars

\* a registered dataset was deleted while another one stays registered
C15_Witness ==
    /\ lastCall.op = "delete_dataset"
    /\ lastCall.existed
    /\ ~dataset_exists(g, lastCall.identifier)
    /\ \E other \in Identifiers \ {lastCall.identifier} : dataset_exists(g, other)

\* the hasForeignKeyTo edges the store holds from one dataset to another
ForeignKeyEdges(gr, from_dataset, to_dataset) ==
    {t \in gr : t = <<DatasetURI(from_dataset), EX_hasForeignKeyTo,
                      DatasetURI(to_dataset)>>}

\* C16 as stated: after add_foreign_key_relationship(a, b) has returned, the
\* same call once more returns and the store then holds two hasForeignKeyTo
\* edges from a to b.
C16_EdgeAddedTwice ==
    (lastCall.op = "add_foreign_key_relationship" /\ lastCall.result = "True") =>
        LET again == add_foreign_key_relationship(g, lastCall.identifier, lastCall.to,
                                                  lastCall.description)
        IN  /\ again.result = "True"
            /\ Cardinality(ForeignKeyEdges(again.g, lastCall.identifier, lastCall.to)) = 2

\* C16 as the code has it: after add_foreign_key_relationship(a, b) has
\* returned, the same call once more returns without an error and leaves the
\* store as it is, with one hasForeignKeyTo edge from a to b.
C16_EdgeAddedOnce ==
    (lastCall.op = "add_foreign_key_relationship" /\ lastCall.result = "True") =>
        LET again == add_foreign_key_relationship(g, lastCall.identifier, lastCall.to,
                                                  lastCall.description)
        IN  /\ again.result = "True"
            /\ again.g = g
            /\ Cardinality(ForeignKeyEdges(again.g, lastCall.identifier, lastCall.to)) = 1

\* add_foreign_key_relationship has returned for two registered datasets
C16_Witness ==
    /\ lastCall.op = "add_foreign_key_relationship"
    /\ lastCall.result = "True"
    /\ lastCall.identifier # lastCall.to
    /\ ForeignKeyEdges(g, lastCall.identifier, lastCall.to) # {}

\* the nodes typed Field, and the hasField edges that point at a node
FieldNodes(gr) == {t[1] : t \in {u \in gr : u[2] = RDF_type /\ u[3] = FIELD_Field}}

OwnerEdges(gr, f) == {t \in gr : t[2] = FIELD_hasField /\ t[3] = f}

\* C17: after any sequence of add_dataset, delete_dataset and
\* add_foreign_key_relationship calls that all completed, every node typed
\* Field is the object of exactly one hasField edge, and the subject of that
\* edge is typed Dataset.
C17_FieldOwnership ==
    \A f \in FieldNodes(g) :
        /\ Cardinality(OwnerEdges(g, f)) = 1
        /\ \A t \in OwnerEdges(g, f) : <<t[1], RDF_type, DCAT_Dataset>> \in g

\* a dataset that owned fields was registered again with fields, while
\* the other identifier is not registered
C17_Witness ==
    /\ lastCall.op = "add_dataset"
    /\ lastCall.existed
    /\ lastCall.nfields >= 1
    /\ Cardinality(FieldNodes(g)) >= 2
    /\ \E other \in Identifiers : ~dataset_exists(g, other)

\* the hasForeignKeyTo edges of the store
ForeignKeys(gr) == {t \in gr : t[2] = EX_hasForeignKeyTo}

Typed(gr, node) == <<node, RDF_type, DCAT_Dataset>> \in gr

\* C18 as stated: in every reachable state every hasForeignKeyTo edge
\* connects two datasets that both exist.
C18_NoDanglingForeignKeys ==
    \A t \in ForeignKeys(g) : Typed(g, t[1]) /\ Typed(g, t[3])

\* C18 as the code has it: a hasForeignKeyTo edge is written only between two
\* datasets that exist at that time, and its source exists as long as the
\* edge does; deleting the target leaves every edge that another dataset has
\* to it in the store, pointing at an identifier that is not registered.
C18_ForeignKeysCheckedAtCreation ==
    [][/\ \A t \in ForeignKeys(g') :
              /\ Typed(g', t[1])
              /\ t \notin g => Typed(g', t[3])
       /\ lastCall'.op = "delete_dataset" =>
              \A t \in ForeignKeys(g) :
                  (t[3] = DatasetURI(lastCall'.identifier) /\ t[1] # t[3]) =>
                      t \in g' /\ ~Typed(g', t[3])]_vars

\* the registered target of another dataset's foreign key was deleted
C18_Witness ==
    /\ lastCall.op = "delete_dataset"
    /\ lastCall.existed
    /\ \E t \in ForeignKeys(g) :
           t[3] = DatasetURI(lastCall.identifier) /\ t[1] # t[3] /\ Typed(g, t[1])

\* the nodes the Catalog has a hasDataset edge to, and the nodes typed Dataset
CatalogMembers(gr) == Objects(gr, catalog, DCAT_dataset)

DatasetNodes(gr) == {t[1] : t \in {u \in gr : u[2] = RDF_type /\ u[3] = DCAT_Dataset}}

\* C19: after every call that completed (add_dataset or
\* add_foreign_key_relationship returned, delete_dataset ended), the Catalog
\* has a hasDataset edge to a node exactly when the node is typed Dataset.
C19_CatalogMembership ==
    lastCall.result \in {"True", "None"} => CatalogMembers(g) = DatasetNodes(g)

\* the statements of a registration and the Catalog's edge to it
Registration(gr, identifier) ==
    RegistrationFacts(gr, identifier)
        \cup {t \in gr : t = <<catalog, DCAT_dataset, DatasetURI(identifier)>>}

\* C20: add_dataset(a, D) and delete_dataset(a) leave every statement about
\* another dataset b, about b's Field nodes and about b's Theme node, and
\* the Catalog's edge to b, as they were; a statement they add is about a's
\* node or a blank node the call created, is the Catalog's edge to a, or is
\* the Class typing of a business-term node.
C20_CrossDatasetIsolation ==
    [][lastCall'.op \in {"add_dataset", "delete_dataset"} =>
          LET a == lastCall'.identifier
          IN  /\ \A b \in Identifiers \ {a} :
                     /\ Registration(g, b) \subseteq g'
                     /\ Registration(g', b) = Registration(g, b)
              /\ \A t \in g' \ g :
                     \/ t[1] = DatasetURI(a)
                     \/ IsBNode(t[1]) /\ TriplesOfSubject(g, t[1]) = {}
                     \/ t = <<catalog, DCAT_dataset, DatasetURI(a)>>
                     \/ t[2] = RDF_type /\ t[3] = OWL_Class]_vars

\* a registered dataset was replaced or deleted while the other dataset is
\* registered with Field nodes and a Theme node
C20_Witness ==
    /\ lastCall.op \in {"add_dataset", "delete_dataset"}
    /\ lastCall.existed
    /\ lastCall.nfields >= 1
    /\ \E b \in Identifiers \ {lastCall.identifier} :
           /\ FieldsOf(g, b) # {}
           /\ ThemesOf(g, b) # {}
           /\ <<catalog, DCAT_dataset, DatasetURI(b)>> \in g

====
